---- MODULE Spec2Model ----
(***************************************************************************)
(* A model of src/src/halo2_json_regex.rs: the process-wide pattern        *)
(* parameter and its mutex, the pattern compiler split_regex, the          *)
(* constraint builder configure, the witness assigner assign, the test     *)
(* module's segmenter convert_input_to_verify_format, and the part of the  *)
(* halo2 framework those functions call (selector enabling, advice         *)
(* assignment, gate evaluation by the prover).                             *)
(*                                                                         *)
(* Bytes are their ASCII codes. Sequences are 1-based, so the Rust index   *)
(* i is position i + 1 here; row offsets, column indices and selector      *)
(* indices keep the 0-based values of the code.                            *)
(***************************************************************************)
EXTENDS Integers, Sequences, FiniteSets, TLC

VARIABLES
    regex,            \* REGEX_CHECK_CONFIG_PARAMS.regex
    lock,             \* holder of the Mutex, 0 when free
    poisoned,         \* the Mutex is poisoned: a holder panicked
    pc,               \* each caller's position
    want,             \* the pattern each caller passes to set_regex_check_config_params
    bytes,            \* split_regex: its argument, params.regex.clone()
    index,            \* split_regex: bytes scanned so far
    current,          \* split_regex: the accumulation buffer
    results,          \* split_regex: the Sections emitted so far
    meta,             \* each caller's ConstraintSystem: counters and gates
    config,           \* each caller's RegexCheckConfig
    backend,          \* the Assignment implementation behind the layouter
    converted_input,  \* assign: its argument
    result,           \* assign: the local `result` of line 120
    offset,           \* assign: the local `offset`
    section_index,    \* assign: the loop's section index
    vi,               \* assign, fill mode: values of the segment consumed
    inner,            \* assign, fill mode: the closure's local `result` of line 155
    trace,            \* the calls made on the region, in order
    faulted           \* the framework has rejected a call

vars == << regex, lock, poisoned, pc, want, bytes, index, current, results,
           meta, config, backend, converted_input, result, offset,
           section_index, vi, inner, trace, faulted >>

splitVars == << bytes, index, current, results >>
assignVars == << result, offset, section_index, vi, inner, trace, faulted >>

----------------------------------------------------------------------------
(* The bytes the code names. *)

LBRACE == 123
RBRACE == 125
QUOTE == 34
COLON == 58
LBRACKET == 91
RBRACKET == 93
DASH == 45

(* The other bytes used by the patterns and inputs of the checks. *)
PLUS == 43
LowerA == 97
LowerC == 99

(* Fp of line 188 is a prime field whose modulus is far above every byte.  *)
(* TLC's integers cannot hold that modulus; the gate arithmetic is carried *)
(* out modulo the least prime above 255. The two facts about Fp the gates  *)
(* rest on hold of both: a product is zero only if a factor is, and two    *)
(* different bytes differ in the field.                                    *)
FieldModulus == 257

Bytes == 0..255

(* The callers; Main is the one that goes on to synthesize a circuit. *)
Callers == {1, 2}
Main == 1

----------------------------------------------------------------------------
(* Bounds of the checked instances. *)

MaxPatLen == 4      \* longest enumerated pattern of the compiler runs
MaxLitLen == 2      \* longest enumerated literal-only pattern
MaxSize == 4        \* segments plus values of an enumerated segment list

----------------------------------------------------------------------------
(* Helpers. *)

Strs(alphabet, n) == UNION { [1..k -> alphabet] : k \in 0..n }

Min(a, b) == IF a < b THEN a ELSE b

Range(s) == { s[i] : i \in 1..Len(s) }

Last(s) == s[Len(s)]

----------------------------------------------------------------------------
(* split_regex, lines 51-73. *)

IsLiteral(ch) == ch = LBRACE \/ ch = QUOTE \/ ch = RBRACE \/ ch = COLON

(* the range taken exclusive at both ends *)
RangeSkipsFirst(lo, hi) == [k \in 1..(IF hi > lo + 1 THEN hi - lo - 1 ELSE 0) |-> lo + k]

(* for sub_ch in lo..hi of line 65: lo inclusive, hi exclusive, in order *)
ExclusiveRange(lo, hi) == [k \in 1..(IF hi > lo THEN hi - lo ELSE 0) |-> lo + k - 1]

(* bytes[index - 1] and bytes[index + 1] of line 65 panic when the `-` is  *)
(* the first or the last byte (index is 0-based there, i is 1-based here). *)
DashPanics(bs, i) == i = 1 \/ i = Len(bs)

(* Line 62-63: what `]` leaves in the buffer. *)
AfterClose(cur) == cur

(* One iteration of the loop of line 55 on byte i of bs. *)
SplitByte(bs, i, cur, res) ==
    LET ch == bs[i] IN
    IF IsLiteral(ch)
      THEN [panic |-> FALSE, current |-> cur, results |-> Append(res, <<ch>>)]
    ELSE IF ch = LBRACKET
      THEN [panic |-> FALSE, current |-> <<>>, results |-> res]
    ELSE IF ch = RBRACKET
      THEN [panic |-> FALSE, current |-> AfterClose(cur), results |-> Append(res, cur)]
    ELSE IF ch = DASH
      THEN IF DashPanics(bs, i)
             THEN [panic |-> TRUE, current |-> cur, results |-> res]
             ELSE [panic |-> FALSE,
                   current |-> cur \o ExclusiveRange(bs[i - 1] + 1, bs[i + 1]),
                   results |-> res]
    ELSE [panic |-> FALSE, current |-> Append(cur, ch), results |-> res]

(* The whole scan, as a fold of SplitByte from byte i on. *)
RECURSIVE SplitFrom(_, _, _, _)
SplitFrom(bs, i, cur, res) ==
    IF i > Len(bs)
      THEN [panic |-> FALSE, current |-> cur, results |-> res]
      ELSE LET s == SplitByte(bs, i, cur, res) IN
           IF s.panic THEN s ELSE SplitFrom(bs, i + 1, s.current, s.results)

split_regex(bs) == SplitFrom(bs, 1, <<>>, <<>>)

----------------------------------------------------------------------------
(* The gate of lines 84-103. *)

(* section.iter().fold(value, |expr, i| expr * (Constant(i) - value)),     *)
(* from member k of the section on, in the field.                          *)
RECURSIVE FoldGate(_, _, _, _)
FoldGate(section, k, expr, v) ==
    IF k > Len(section)
      THEN expr
      ELSE FoldGate(section, k + 1,
                    (expr * ((section[k] - v + FieldModulus) % FieldModulus)) % FieldModulus,
                    v)

(* the fold started from one instead of from the value *)
RangeCheckNoValue(section, v) == FoldGate(section, 1, 1, v)

range_check(section, v) == FoldGate(section, 1, v % FieldModulus, v)

----------------------------------------------------------------------------
(* The mutex and set_regex_check_config_params, lines 38-48. *)

EmptyMeta == [num_selectors |-> 0, num_advice |-> 0, gates |-> <<>>]
EmptyConfig == [value_advice_array |-> <<>>, value_selector_array |-> <<>>]

(* a lock that excludes nobody *)
LockIgnored == TRUE

LockFree == lock = 0

(* REGEX_CHECK_CONFIG_PARAMS.lock().unwrap() of line 46 *)
SetLock(t) ==
    /\ pc[t] = "set"
    /\ LockFree
    /\ IF poisoned
         THEN /\ pc' = [pc EXCEPT ![t] = "panic"]
              /\ UNCHANGED lock
         ELSE /\ pc' = [pc EXCEPT ![t] = "set_store"]
              /\ lock' = t
    /\ UNCHANGED << regex, poisoned, want, splitVars, meta, config, backend,
                    converted_input, assignVars >>

(* params.regex = regex of line 47, and the guard's drop *)
SetStore(t) ==
    /\ pc[t] = "set_store"
    /\ regex' = want[t]
    /\ lock' = 0
    /\ pc' = [pc EXCEPT ![t] = "configure"]
    /\ UNCHANGED << poisoned, want, splitVars, meta, config, backend,
                    converted_input, assignVars >>

----------------------------------------------------------------------------
(* configure, lines 75-113. The guard `params` lives to the end of the     *)
(* function, so the mutex is held across the scan and the gate loop.       *)

(* line 76, and the call of split_regex on a clone of the pattern *)
ConfigureLock(t) ==
    /\ pc[t] = "configure"
    /\ LockFree
    /\ IF poisoned
         THEN /\ pc' = [pc EXCEPT ![t] = "panic"]
              /\ UNCHANGED << lock, splitVars >>
         ELSE /\ pc' = [pc EXCEPT ![t] = "split"]
              /\ lock' = t
              /\ bytes' = regex
              /\ index' = 0
              /\ current' = <<>>
              /\ results' = <<>>
    /\ UNCHANGED << regex, poisoned, want, meta, config, backend,
                    converted_input, assignVars >>

(* one iteration of the loop of line 55; a panic unwinds through configure *)
(* with the guard held, which poisons the mutex                            *)
SplitStep(t) ==
    /\ pc[t] = "split"
    /\ index < Len(bytes)
    /\ LET s == SplitByte(bytes, index + 1, current, results) IN
       IF s.panic
         THEN /\ pc' = [pc EXCEPT ![t] = "panic"]
              /\ poisoned' = TRUE
              /\ lock' = 0
              /\ UNCHANGED << index, current, results >>
         ELSE /\ index' = index + 1
              /\ current' = s.current
              /\ results' = s.results
              /\ UNCHANGED << pc, poisoned, lock >>
    /\ UNCHANGED << regex, want, bytes, meta, config, backend,
                    converted_input, assignVars >>

(* line 72: the scan returns; lines 78-79 *)
SplitReturn(t) ==
    /\ pc[t] = "split"
    /\ index = Len(bytes)
    /\ pc' = [pc EXCEPT ![t] = "gates"]
    /\ meta' = [meta EXCEPT ![t] = EmptyMeta]
    /\ config' = [config EXCEPT ![t] = EmptyConfig]
    /\ UNCHANGED << regex, lock, poisoned, want, splitVars, backend,
                    converted_input, assignVars >>

(* The section the loop of line 80 takes on its k-th iteration (1-based). *)
SectionAt(secs, k) == secs[k]

(* one iteration of the loop of line 80: a selector, an advice column and  *)
(* a gate over them for the next section, then the two pushes              *)
ConfigureSection(t) ==
    /\ pc[t] = "gates"
    /\ Len(config[t].value_selector_array) < Len(results)
    /\ LET k == Len(config[t].value_selector_array) + 1
           selector == meta[t].num_selectors
           value == meta[t].num_advice
       IN /\ meta' = [meta EXCEPT ![t] =
                        [num_selectors |-> selector + 1,
                         num_advice |-> value + 1,
                         gates |-> Append(meta[t].gates,
                                          [selector |-> selector,
                                           column |-> value,
                                           section |-> SectionAt(results, k)])]]
          /\ config' = [config EXCEPT ![t] =
                        [value_advice_array |-> Append(config[t].value_advice_array, value),
                         value_selector_array |-> Append(config[t].value_selector_array, selector)]]
    /\ UNCHANGED << regex, lock, poisoned, pc, want, splitVars, backend,
                    converted_input, assignVars >>

(* lines 108-113: the configuration is returned and the guard dropped *)
ConfigureReturn(t) ==
    /\ pc[t] = "gates"
    /\ Len(config[t].value_selector_array) = Len(results)
    /\ lock' = 0
    /\ pc' = [pc EXCEPT ![t] = "configured"]
    /\ UNCHANGED << regex, poisoned, want, splitVars, meta, config, backend,
                    converted_input, assignVars >>

----------------------------------------------------------------------------
(* The framework calls assign makes. The layouter is the V1 floor planner  *)
(* of line 229: it runs the closure of an assign_region call once per      *)
(* pass, and, every region using a column and a selector of its own,       *)
(* places every region at row 0, so a region's offset is the row.          *)

(* Value::default() of line 136: the unknown value, which has no witness.  *)
Unknown == -1

Ok(column, row, v) == [ok |-> TRUE, err |-> "", column |-> column, row |-> row, val |-> v]
Err(e) == [ok |-> FALSE, err |-> e, column |-> 0, row |-> 0, val |-> 0]

(* What a call may answer: the framework may reject it (a row beyond the   *)
(* usable rows, for one); at most one rejection is followed per run.       *)
Outcomes == IF faulted THEN {TRUE} ELSE {TRUE, FALSE}

(* region.assign_advice: a rejected call fails; the prover evaluates the   *)
(* value and fails with Error::Synthesis on an unknown one; key generation *)
(* never evaluates it.                                                     *)
AssignAdvice(column, row, v, accepted) ==
    IF ~accepted THEN Err("Rejected")
    ELSE IF backend = "prover" /\ v = Unknown THEN Err("Synthesis")
    ELSE Ok(column, row, v)

EnableEvent(selector, row, accepted) ==
    [op |-> "enable", region |-> section_index, index |-> selector, row |-> row,
     val |-> 0, ok |-> accepted]

AssignEvent(column, row, v, r) ==
    [op |-> "assign", region |-> section_index, index |-> column, row |-> row,
     val |-> v, ok |-> r.ok]

----------------------------------------------------------------------------
(* assign, lines 115-180, called by synthesize (lines 239-250) on the      *)
(* configuration of the Main caller.                                       *)

NumSections == Len(config[Main].value_selector_array)

(* lines 120-122 and 145 *)
AssignStart ==
    /\ pc[Main] = "configured"
    /\ result' = Err("Synthesis")
    /\ offset' = 0
    /\ section_index' = 0
    /\ pc' = [pc EXCEPT ![Main] = IF converted_input = <<>> THEN "d_for" ELSE "f_for"]
    /\ UNCHANGED << regex, lock, poisoned, want, splitVars, meta, config, backend,
                    converted_input, vi, inner, trace, faulted >>

(* an offset that is never advanced *)
OffsetStuck(o) == o

(* offset += 1 of lines 142 and 170 *)
NextOffset(o) == o + 1

(* the first column, the first selector, whatever the section *)
ColumnFirst(cfg, si) == cfg.value_advice_array[1]
SelectorFirst(cfg, si) == cfg.value_selector_array[1]

(* The column and the selector used for section index si (0-based). *)
ColumnOf(cfg, si) == cfg.value_advice_array[si + 1]
SelectorOf(cfg, si) == cfg.value_selector_array[si + 1]

(* Default mode, lines 123-143. *)

(* line 123 with the assign_region call of line 124; a rejected region     *)
(* leaves its error in result and the loop goes on (line 142)              *)
DefaultRegion ==
    /\ pc[Main] = "d_for"
    /\ section_index < NumSections
    /\ \E accepted \in Outcomes :
         IF accepted
           THEN /\ pc' = [pc EXCEPT ![Main] = "d_enable"]
                /\ UNCHANGED << result, offset, section_index, faulted >>
           ELSE /\ result' = Err("Rejected")
                /\ offset' = NextOffset(offset)
                /\ section_index' = section_index + 1
                /\ faulted' = TRUE
                /\ UNCHANGED pc
    /\ UNCHANGED << regex, lock, poisoned, want, splitVars, meta, config, backend,
                    converted_input, vi, inner, trace >>

(* line 128; `?` leaves the closure, line 124 stores the error, line 142 *)
DefaultEnable ==
    /\ pc[Main] = "d_enable"
    /\ \E accepted \in Outcomes :
         /\ trace' = Append(trace, EnableEvent(SelectorOf(config[Main], section_index),
                                               offset, accepted))
         /\ IF accepted
              THEN /\ pc' = [pc EXCEPT ![Main] = "d_write"]
                   /\ UNCHANGED << result, offset, section_index, faulted >>
              ELSE /\ result' = Err("Rejected")
                   /\ offset' = NextOffset(offset)
                   /\ section_index' = section_index + 1
                   /\ faulted' = TRUE
                   /\ pc' = [pc EXCEPT ![Main] = "d_for"]
    /\ UNCHANGED << regex, lock, poisoned, want, splitVars, meta, config, backend,
                    converted_input, vi, inner >>

(* lines 131-142 *)
DefaultWrite ==
    /\ pc[Main] = "d_write"
    /\ \E accepted \in Outcomes :
         LET column == ColumnOf(config[Main], section_index)
             r == AssignAdvice(column, offset, Unknown, accepted)
         IN /\ trace' = Append(trace, AssignEvent(column, offset, Unknown, r))
            /\ result' = r
            /\ faulted' = (faulted \/ ~accepted)
    /\ offset' = NextOffset(offset)
    /\ section_index' = section_index + 1
    /\ pc' = [pc EXCEPT ![Main] = "d_for"]
    /\ UNCHANGED << regex, lock, poisoned, want, splitVars, meta, config, backend,
                    converted_input, vi, inner >>

(* the loop of line 123 is over; line 179 *)
DefaultReturn ==
    /\ pc[Main] = "d_for"
    /\ section_index >= NumSections
    /\ pc' = [pc EXCEPT ![Main] = "done"]
    /\ UNCHANGED << regex, lock, poisoned, want, splitVars, meta, config, backend,
                    converted_input, assignVars >>

(* Fill mode, lines 145-177. The loop of line 146 and section_index advance *)
(* together, so the segment in hand is converted_input[section_index + 1].  *)

(* the comparison of line 148 off by one *)
StopLate(si, n) == si > n

(* line 148 *)
StopEarly(si, n) == si >= n

Segment == converted_input[section_index + 1]

(* the loop of line 146 is over, or the break of line 149; line 179 *)
FillReturn ==
    /\ pc[Main] = "f_for"
    /\ \/ section_index >= Len(converted_input)
       \/ StopEarly(section_index, NumSections)
    /\ pc' = [pc EXCEPT ![Main] = "done"]
    /\ UNCHANGED << regex, lock, poisoned, want, splitVars, meta, config, backend,
                    converted_input, assignVars >>

(* the assign_region call of line 152 and line 155; a rejected region      *)
(* leaves its error in result and the loop goes on (line 176)              *)
FillRegion ==
    /\ pc[Main] = "f_for"
    /\ section_index < Len(converted_input)
    /\ ~StopEarly(section_index, NumSections)
    /\ \E accepted \in Outcomes :
         IF accepted
           THEN /\ inner' = Err("Synthesis")
                /\ vi' = 0
                /\ pc' = [pc EXCEPT ![Main] = "f_values"]
                /\ UNCHANGED << result, section_index, faulted >>
           ELSE /\ result' = Err("Rejected")
                /\ section_index' = section_index + 1
                /\ faulted' = TRUE
                /\ UNCHANGED << pc, inner, vi >>
    /\ UNCHANGED << regex, lock, poisoned, want, splitVars, meta, config, backend,
                    converted_input, offset, trace >>

(* line 158; indexing the selector array past its end panics; `?` leaves   *)
(* the closure, line 152 stores the error, line 176                        *)
FillEnable ==
    /\ pc[Main] = "f_values"
    /\ vi < Len(Segment)
    /\ IF section_index >= NumSections
         THEN /\ pc' = [pc EXCEPT ![Main] = "panic"]
              /\ UNCHANGED << result, section_index, trace, faulted >>
         ELSE \E accepted \in Outcomes :
                /\ trace' = Append(trace, EnableEvent(SelectorOf(config[Main], section_index),
                                                      offset, accepted))
                /\ IF accepted
                     THEN /\ pc' = [pc EXCEPT ![Main] = "f_write"]
                          /\ UNCHANGED << result, section_index, faulted >>
                     ELSE /\ result' = Err("Rejected")
                          /\ section_index' = section_index + 1
                          /\ faulted' = TRUE
                          /\ pc' = [pc EXCEPT ![Main] = "f_for"]
    /\ UNCHANGED << regex, lock, poisoned, want, splitVars, meta, config, backend,
                    converted_input, offset, vi, inner >>

(* lines 161-170: the outcome of the write goes to the closure's result,   *)
(* whatever it is, and the loop of line 156 goes on                        *)
FillWrite ==
    /\ pc[Main] = "f_write"
    /\ \E accepted \in Outcomes :
         LET column == ColumnOf(config[Main], section_index)
             r == AssignAdvice(column, offset, Segment[vi + 1], accepted)
         IN /\ trace' = Append(trace, AssignEvent(column, offset, Segment[vi + 1], r))
            /\ inner' = r
            /\ faulted' = (faulted \/ ~accepted)
    /\ offset' = NextOffset(offset)
    /\ vi' = vi + 1
    /\ pc' = [pc EXCEPT ![Main] = "f_values"]
    /\ UNCHANGED << regex, lock, poisoned, want, splitVars, meta, config, backend,
                    converted_input, result, section_index >>

(* lines 172-176: the closure returns its result, which line 152 stores *)
FillRegionReturn ==
    /\ pc[Main] = "f_values"
    /\ vi = Len(Segment)
    /\ result' = inner
    /\ section_index' = section_index + 1
    /\ pc' = [pc EXCEPT ![Main] = "f_for"]
    /\ UNCHANGED << regex, lock, poisoned, want, splitVars, meta, config, backend,
                    converted_input, offset, vi, inner, trace, faulted >>

----------------------------------------------------------------------------
(* convert_input_to_verify_format, lines 200-224: F::from(ch) is the byte. *)

RECURSIVE ConvertFrom(_, _, _, _)
ConvertFrom(input, i, cur, res) ==
    IF i > Len(input) THEN res
    ELSE LET ch == input[i] IN
         IF ch = LBRACE \/ ch = RBRACE \/ ch = COLON
           THEN ConvertFrom(input, i + 1, cur, Append(res, <<ch>>))
         ELSE IF ch = QUOTE
           THEN IF cur = <<>>
                  THEN ConvertFrom(input, i + 1, cur, Append(res, <<ch>>))
                  ELSE ConvertFrom(input, i + 1, <<>>, Append(Append(res, cur), <<ch>>))
         ELSE ConvertFrom(input, i + 1, Append(cur, ch), res)

convert_input_to_verify_format(input) == ConvertFrom(input, 1, <<>>, <<>>)

----------------------------------------------------------------------------
(* What the prover checks, MockProver::verify of lines 270 and 281: at     *)
(* every row where a gate's selector is enabled, the gate's cell is        *)
(* assigned and the gate's polynomial vanishes on it.                      *)

Enabled(selector, row) ==
    \E k \in 1..Len(trace) :
        /\ trace[k].op = "enable" /\ trace[k].ok
        /\ trace[k].index = selector /\ trace[k].row = row

Assigned(column, row) ==
    /\ backend = "prover"
    /\ \E k \in 1..Len(trace) :
        /\ trace[k].op = "assign" /\ trace[k].ok
        /\ trace[k].index = column /\ trace[k].row = row

CellValue(column, row) ==
    LET k == CHOOSE j \in 1..Len(trace) :
                 /\ trace[j].op = "assign" /\ trace[j].ok
                 /\ trace[j].index = column /\ trace[j].row = row
    IN trace[k].val

Rows == { trace[k].row : k \in 1..Len(trace) }

Satisfied ==
    \A g \in 1..Len(meta[Main].gates) : \A row \in Rows :
        LET gate == meta[Main].gates[g] IN
        Enabled(gate.selector, row) =>
            /\ Assigned(gate.column, row)
            /\ range_check(gate.section, CellValue(gate.column, row)) = 0

----------------------------------------------------------------------------
(* The instances checked. *)

(* the patterns and inputs of test_regex_check_1 and test_regex_check_2 *)
Test1Pattern == << 123, 34, 91, 97, 45, 122, 93, 43, 34, 125 >>
Test1Good == << 123, 34, 97, 98, 99, 34, 125 >>
Test1Bad == << 123, 123, 34, 97, 98, 99, 34, 125 >>
Test2Pattern == << 123, 34, 91, 97, 45, 122, 93, 43, 34, 58, 34,
                   91, 97, 45, 122, 65, 45, 90, 48, 45, 57, 93, 43, 34, 125 >>
Test2Good == << 123, 34, 97, 98, 99, 34, 58, 34, 97, 98, 99, 68, 90, 49, 50, 51, 34, 125 >>
Test2Bad == << 123, 34, 97, 98, 99, 55, 34, 58, 34, 97, 98, 99, 34, 125 >>

TestVectors ==
    { << Test1Pattern, convert_input_to_verify_format(Test1Good) >>,
      << Test1Pattern, convert_input_to_verify_format(Test1Bad) >>,
      << Test2Pattern, convert_input_to_verify_format(Test2Good) >>,
      << Test2Pattern, convert_input_to_verify_format(Test2Bad) >> }

(* patterns met with every enumerated segment list: no Section, a class,   *)
(* literals around a class, a repeated literal, a class with a member      *)
(* listed twice, and a `-` that makes split_regex panic                    *)
SamplePatterns ==
    { << >>,
      << LBRACKET, LowerA, DASH, LowerC, RBRACKET, PLUS >>,
      << LBRACE, LBRACKET, LowerA, DASH, LowerC, RBRACKET, PLUS, RBRACE >>,
      << LBRACE, LBRACE >>,
      << LBRACKET, LowerA, LowerA, RBRACKET, COLON >>,
      << LBRACE, DASH >> }

(* the values of the enumerated segments: zero, a class member, a literal *)
SegValues == { 0, LowerA, LBRACE }

(* every list of segments whose segments and values number at most w *)
RECURSIVE SegLists(_)
SegLists(w) ==
    IF w <= 0 THEN { << >> }
    ELSE { << >> } \cup
         UNION { { << s >> \o l : l \in SegLists(w - 1 - Len(s)) } :
                 s \in Strs(SegValues, w - 1) }

(* literal-only patterns, and the inputs one literal byte away from them *)
LitAlphabet == { LBRACE, QUOTE, RBRACE }
LiteralPatterns == Strs(LitAlphabet, MaxLitLen)

Inserted(p) ==
    { SubSeq(p, 1, i) \o << b >> \o SubSeq(p, i + 1, Len(p)) :
        i \in 0..Len(p), b \in LitAlphabet }
Removed(p) ==
    { SubSeq(p, 1, i - 1) \o SubSeq(p, i + 1, Len(p)) : i \in 1..Len(p) }
Substituted(p) ==
    UNION { { [p EXCEPT ![i] = b] : b \in LitAlphabet \ { p[i] } } : i \in 1..Len(p) }
Edits(p) == Inserted(p) \cup Removed(p) \cup Substituted(p)

InitPairs ==
    TestVectors
    \cup (SamplePatterns \X SegLists(MaxSize))
    \cup UNION { { << p, convert_input_to_verify_format(s) >> : s \in { p } \cup Edits(p) } :
                 p \in LiteralPatterns }

(* the alphabet of the enumerated patterns of the compiler runs *)
PatAlphabet == { LBRACE, LBRACKET, RBRACKET, DASH, LowerA, LowerC, PLUS }

(* the patterns two concurrent callers set *)
ConcPatterns ==
    { << LBRACE >>,
      << LBRACKET, LowerA, RBRACKET >>,
      << COLON, QUOTE >>,
      << DASH >> }

----------------------------------------------------------------------------
(* The state after the lazy_static of lines 38-43, before any call. *)

InitCommon ==
    /\ regex = << >>
    /\ lock = 0
    /\ poisoned = FALSE
    /\ bytes = << >>
    /\ index = 0
    /\ current = << >>
    /\ results = << >>
    /\ meta = [t \in Callers |-> EmptyMeta]
    /\ config = [t \in Callers |-> EmptyConfig]
    /\ result = Err("Synthesis")
    /\ offset = 0
    /\ section_index = 0
    /\ vi = 0
    /\ inner = Err("Synthesis")
    /\ trace = << >>
    /\ faulted = FALSE

(* One caller sets a pattern, configures and synthesizes a circuit. *)
Init ==
    /\ InitCommon
    /\ pc = [t \in Callers |-> IF t = Main THEN "set" ELSE "idle"]
    /\ backend \in { "prover", "keygen" }
    /\ \E pr \in InitPairs :
         /\ want = [t \in Callers |-> IF t = Main THEN pr[1] ELSE << >>]
         /\ converted_input = pr[2]

Next ==
    \/ SetLock(Main)
    \/ SetStore(Main)
    \/ ConfigureLock(Main)
    \/ SplitStep(Main)
    \/ SplitReturn(Main)
    \/ ConfigureSection(Main)
    \/ ConfigureReturn(Main)
    \/ AssignStart
    \/ DefaultRegion
    \/ DefaultEnable
    \/ DefaultWrite
    \/ DefaultReturn
    \/ FillRegion
    \/ FillEnable
    \/ FillWrite
    \/ FillRegionReturn
    \/ FillReturn

Spec == Init /\ [][Next]_vars

(* One caller sets and compiles each pattern over PatAlphabet. *)
InitCompile ==
    /\ InitCommon
    /\ pc = [t \in Callers |-> IF t = Main THEN "set" ELSE "idle"]
    /\ backend = "keygen"
    /\ converted_input = << >>
    /\ \E p \in Strs(PatAlphabet, MaxPatLen) :
         want = [t \in Callers |-> IF t = Main THEN p ELSE << >>]

NextCompile ==
    \/ SetLock(Main)
    \/ SetStore(Main)
    \/ ConfigureLock(Main)
    \/ SplitStep(Main)
    \/ SplitReturn(Main)
    \/ ConfigureSection(Main)
    \/ ConfigureReturn(Main)

SpecCompile == InitCompile /\ [][NextCompile]_vars

(* Two callers each set a pattern and then configure. *)
InitConc ==
    /\ InitCommon
    /\ pc = [t \in Callers |-> "set"]
    /\ backend = "keygen"
    /\ converted_input = << >>
    /\ want \in [Callers -> ConcPatterns]

NextConc ==
    \E t \in Callers :
        \/ SetLock(t)
        \/ SetStore(t)
        \/ ConfigureLock(t)
        \/ SplitStep(t)
        \/ SplitReturn(t)
        \/ ConfigureSection(t)
        \/ ConfigureReturn(t)

SpecConc == InitConc /\ [][NextConc]_vars

----------------------------------------------------------------------------
(* Vocabulary of the properties. *)

Done == pc[Main] = "done"
FillMode == converted_input # << >>

(* a run of assign that ended with no call rejected by the framework *)
CleanRun == Done /\ ~faulted

(* the Sections the gates of the Main caller were built from *)
Sections == [g \in 1..Len(meta[Main].gates) |-> meta[Main].gates[g].section]

Member(v, section) == \E x \in 1..Len(section) : section[x] = v

(* the segments assign looks at: those with an index below min(m, n) *)
Checked == Min(Len(converted_input), NumSections)

(* a panic of the Main caller comes from split_regex only *)
NoStrayPanic == pc[Main] = "panic" => poisoned

(* the values of a list of segments in order, each with its segment index *)
RECURSIVE Flat(_, _)
Flat(segs, i) ==
    IF i > Len(segs) THEN << >>
    ELSE [j \in 1..Len(segs[i]) |-> [seg |-> i - 1, val |-> segs[i][j]]] \o Flat(segs, i + 1)

AssignEvents == { k \in 1..Len(trace) : trace[k].op = "assign" }

(* how many value writes were attempted before event k *)
WritesBefore(k) == Cardinality({ j \in AssignEvents : j < k })

----------------------------------------------------------------------------
(* C1: in fill mode every value of a segment with index below min(m, n) is *)
(* written into the column of its index at a row where the gate of that    *)
(* index is enabled; the constraints are satisfied when every such value   *)
(* is a member of its Section and are not when one is non-zero and outside *)
(* it; the four inputs of the two tests are accepted and rejected as the   *)
(* tests say.                                                              *)
C1_FillMembership ==
    (CleanRun /\ FillMode /\ backend = "prover") =>
        /\ Sections = split_regex(regex).results
        /\ \A i \in 1..Checked : \A j \in 1..Len(converted_input[i]) :
             \E k \in 1..Len(trace) :
                 /\ trace[k].op = "assign" /\ trace[k].ok
                 /\ trace[k].index = i - 1
                 /\ trace[k].val = converted_input[i][j]
                 /\ meta[Main].gates[i].column = i - 1
                 /\ Enabled(meta[Main].gates[i].selector, trace[k].row)
        /\ (\A i \in 1..Checked : \A j \in 1..Len(converted_input[i]) :
                Member(converted_input[i][j], Sections[i]))
             => Satisfied
        /\ (\E i \in 1..Checked : \E j \in 1..Len(converted_input[i]) :
                /\ converted_input[i][j] # 0
                /\ ~Member(converted_input[i][j], Sections[i]))
             => ~Satisfied
        /\ regex = Test1Pattern =>
             /\ converted_input = convert_input_to_verify_format(Test1Good)
                  => (Satisfied /\ result.ok)
             /\ converted_input = convert_input_to_verify_format(Test1Bad) => ~Satisfied
        /\ regex = Test2Pattern =>
             /\ converted_input = convert_input_to_verify_format(Test2Good)
                  => (Satisfied /\ result.ok)
             /\ converted_input = convert_input_to_verify_format(Test2Bad) => ~Satisfied

C1_Witness ==
    /\ CleanRun /\ backend = "prover"
    /\ regex = Test2Pattern
    /\ converted_input = convert_input_to_verify_format(Test2Bad)
    /\ Len(converted_input[3]) = 4
    /\ ~Satisfied

----------------------------------------------------------------------------
(* Literal-only patterns and inputs. *)

LiteralOnly(p) == \A i \in 1..Len(p) : IsLiteral(p[i])

LiteralInput ==
    \A i \in 1..Len(converted_input) :
        Len(converted_input[i]) = 1 /\ IsLiteral(converted_input[i][1])

InputBytes == [i \in 1..Len(converted_input) |-> converted_input[i][1]]

(* the input differs from the pattern at a position both have *)
MismatchBelowMin ==
    \E i \in 1..Min(Len(converted_input), Len(regex)) : InputBytes[i] # regex[i]

(* C2 as stated: for a literal-only pattern the input equal to it is       *)
(* accepted, and every input with one literal byte added, removed or       *)
(* replaced, at any position, the end included, is rejected.               *)
C2_Original ==
    (CleanRun /\ backend = "prover" /\ LiteralOnly(regex) /\ LiteralInput /\ Len(regex) >= 1) =>
        /\ InputBytes = regex /\ FillMode => Satisfied
        /\ InputBytes \in Edits(regex) => ~Satisfied

(* C2 as amended: for a literal-only pattern and a non-empty input of      *)
(* literal bytes the constraints are satisfied exactly when the input      *)
(* agrees with the pattern at every position below min(m, n); so the equal *)
(* input is accepted and every replaced byte is rejected, while a byte     *)
(* added at the end or missing from the end is accepted; the excess is     *)
(* dropped without a panic.                                                *)
C2_Amended ==
    /\ NoStrayPanic
    /\ (CleanRun /\ backend = "prover" /\ LiteralOnly(regex) /\ LiteralInput /\ FillMode) =>
        /\ Satisfied <=> ~MismatchBelowMin
        /\ InputBytes = regex => (Satisfied /\ result.ok)
        /\ InputBytes \in Substituted(regex) => ~Satisfied
        /\ (Len(InputBytes) > Len(regex) /\ SubSeq(InputBytes, 1, Len(regex)) = regex)
             => Satisfied
        /\ (Len(InputBytes) < Len(regex) /\ SubSeq(regex, 1, Len(InputBytes)) = InputBytes)
             => Satisfied

(* an input with one literal byte too many at the end, accepted *)
C2_Witness ==
    /\ CleanRun /\ backend = "prover" /\ LiteralInput
    /\ Len(regex) = 2 /\ LiteralOnly(regex)
    /\ Len(converted_input) = 3
    /\ SubSeq(InputBytes, 1, 2) = regex
    /\ Satisfied

----------------------------------------------------------------------------
(* What a run of fill mode on the segment list segs calls on the region    *)
(* when nothing is rejected: for the r-th value, an enable and then a      *)
(* write at row r - 1, for the selector and the column of its segment.     *)
FillTraceIs(segs) ==
    LET F == Flat(segs, 1) IN
    /\ Len(trace) = 2 * Len(F)
    /\ \A r \in 1..Len(F) :
         /\ trace[2 * r - 1] = [op |-> "enable", region |-> F[r].seg, index |-> F[r].seg,
                                row |-> r - 1, val |-> 0, ok |-> TRUE]
         /\ trace[2 * r] = [op |-> "assign", region |-> F[r].seg, index |-> F[r].seg,
                            row |-> r - 1, val |-> F[r].val, ok |-> TRUE]

FillResultIs(segs) ==
    LET F == Flat(segs, 1) IN
    IF segs = << >> \/ Last(segs) = << >>
      THEN result = Err("Synthesis")
      ELSE result = Ok(Len(segs) - 1, Len(F) - 1, Last(Last(segs)))

(* C3: with more segments than Sections (m > n >= 1) assign raises no      *)
(* error for the excess and processes exactly the first n segments: the    *)
(* calls it makes and what it returns are those of the first n segments    *)
(* alone (which is also what a call with only those n segments makes and   *)
(* returns: the same statement with m = n).                                *)
C3_Truncation ==
    /\ NoStrayPanic
    /\ (CleanRun /\ FillMode /\ NumSections >= 1) =>
         LET segs == SubSeq(converted_input, 1, Checked) IN
         /\ FillTraceIs(segs)
         /\ FillResultIs(segs)
         /\ section_index = Checked

C3_Witness ==
    /\ CleanRun /\ FillMode
    /\ NumSections = 1
    /\ Len(converted_input) = 2
    /\ Len(converted_input[1]) = 1
    /\ Len(converted_input[2]) = 1
    /\ Len(trace) = 2
    /\ result.ok

----------------------------------------------------------------------------
----------------------------------------------------------------------------
(* C5 as stated: once a value write has succeeded, assign returns the cell *)
(* of the last write it performed; it returns a synthesis failure only     *)
(* when nothing at all was assigned; whatever the segment list.            *)
C5_Original ==
    CleanRun =>
        LET done == { k \in AssignEvents : trace[k].ok } IN
        IF done # {}
          THEN LET k == CHOOSE x \in done : \A y \in done : y <= x IN
               result = Ok(trace[k].index, trace[k].row, trace[k].val)
          ELSE result = Err("Synthesis")

----------------------------------------------------------------------------
(* C6 as stated: a rejected region allocation, enable or write ends the    *)
(* run at once: no later enable or write is made and assign returns that   *)
(* failure, never a later success.                                         *)
C6_Original ==
    /\ \A k \in 1..Len(trace) : ~trace[k].ok => k = Len(trace)
    /\ (Done /\ faulted) => result = Err("Rejected")

----------------------------------------------------------------------------
(* C7: for every Section S built by configure and every byte v, the gate   *)
(* polynomial v * prod (m - v) is zero exactly when v = 0 or v is a member *)
(* of S, also when S lists a member twice; configure registers one gate    *)
(* and one column per Section, in Section order.                           *)
C7_GatePerSection ==
    /\ pc[Main] \in { "gates", "configured" } =>
         /\ Len(meta[Main].gates) = Len(config[Main].value_advice_array)
         /\ Len(meta[Main].gates) = Len(config[Main].value_selector_array)
         /\ meta[Main].num_advice = Len(meta[Main].gates)
         /\ meta[Main].num_selectors = Len(meta[Main].gates)
         /\ \A g \in 1..Len(meta[Main].gates) :
              /\ meta[Main].gates[g].section = results[g]
              /\ meta[Main].gates[g].selector = g - 1
              /\ meta[Main].gates[g].column = g - 1
              /\ config[Main].value_selector_array[g] = g - 1
              /\ config[Main].value_advice_array[g] = g - 1
    /\ pc[Main] = "configured" =>
         /\ Len(meta[Main].gates) = Len(split_regex(regex).results)
         /\ \A g \in 1..Len(Sections) : \A v \in Bytes :
              range_check(Sections[g], v) = 0 <=> (v = 0 \/ Member(v, Sections[g]))

(* a configuration with a Section that lists a member twice *)
C7_Witness ==
    /\ pc[Main] = "configured"
    /\ \E g \in 1..Len(Sections) :
         /\ Len(Sections[g]) = 2
         /\ Sections[g][1] = Sections[g][2]

----------------------------------------------------------------------------
(* C8: the lock serializes each set_regex_check_config_params and each     *)
(* configure: one caller at a time holds it, the pattern does not change   *)
(* under a configure, and a configure compiles one whole pattern, the one  *)
(* some caller set. It does not tie a configure to the caller's own set:   *)
(* the witness is a caller whose configure compiled the other's pattern.   *)
C8_LockSerializes ==
    /\ \A t \in Callers : pc[t] \in { "set_store", "split", "gates" } => lock = t
    /\ \A t \in Callers : pc[t] \in { "split", "gates" } => bytes = regex
    /\ \A t \in Callers : pc[t] = "configured" =>
         \E u \in Callers :
            [g \in 1..Len(meta[t].gates) |-> meta[t].gates[g].section]
              = split_regex(want[u]).results

C8_StaleRead ==
    /\ pc[1] = "configured"
    /\ pc[2] = "configure"
    /\ [g \in 1..Len(meta[1].gates) |-> meta[1].gates[g].section]
         # split_regex(want[1]).results
    /\ [g \in 1..Len(meta[1].gates) |-> meta[1].gates[g].section]
         = split_regex(want[2]).results

----------------------------------------------------------------------------
(* C9 as stated: after split_regex has read a `]` the accumulation buffer  *)
(* is empty, so the Section a `]` emits holds only what was accumulated    *)
(* since the previous `]`.                                                 *)
C9_Original ==
    (pc[Main] = "split" /\ index > 0 /\ bytes[index] = RBRACKET) => current = << >>

----------------------------------------------------------------------------
(* C10: within one call of assign the rows written strictly increase and   *)
(* are never reused, the rows of one region are contiguous, every write    *)
(* follows the enable of its gate at its row, and, when no call is         *)
(* rejected, the k-th value write (from 0) is at row k.                    *)
C10_Offsets ==
    /\ \A k \in AssignEvents : \A l \in AssignEvents :
         k < l => trace[k].row < trace[l].row
    /\ \A k \in AssignEvents :
         /\ k > 1
         /\ trace[k - 1].op = "enable" /\ trace[k - 1].ok
         /\ trace[k - 1].row = trace[k].row
         /\ trace[k - 1].region = trace[k].region
         /\ trace[k - 1].index = SelectorOf(config[Main], trace[k].region)
         /\ trace[k].index = ColumnOf(config[Main], trace[k].region)
    /\ \A k \in AssignEvents : \A l \in AssignEvents :
         (k < l /\ trace[k].region = trace[l].region /\ WritesBefore(l) = WritesBefore(k) + 1)
            => trace[l].row = trace[k].row + 1
    /\ ~faulted => \A k \in AssignEvents : trace[k].row = WritesBefore(k)

(* a finished run over regions of different lengths *)
C10_Witness ==
    /\ CleanRun
    /\ regex = Test2Pattern
    /\ converted_input = convert_input_to_verify_format(Test2Good)
    /\ Cardinality(AssignEvents) = 18

====
